---------------------------- MODULE Spec2Model ----------------------------
(***************************************************************************)
(* ransomwatch: the client-side rate limiter (utils.RateLimiter), the      *)
(* request path of the API client (api.RansomWatchAPI._make_request and    *)
(* get_group_info), the validators of utils.py and one run of the command  *)
(* line tool (cli.RansomWatchCLI.run).                                     *)
(*                                                                         *)
(* Time is counted in ticks of 0.1 s, the smallest interval the limiter    *)
(* knows (the floor of min_interval).  Sec(n) is n seconds in ticks.       *)
(* time.time() is the variable clock; it never runs backwards, two reads   *)
(* may return the same value, and time.sleep(w) returns once at least w    *)
(* has passed.                                                             *)
(*                                                                         *)
(* Spec has threads calling one RateLimiter, SpecAPI threads calling one   *)
(* RansomWatchAPI, SpecCLI one run of the command line tool, and           *)
(* SpecValidators each validator called once on one input.                 *)
(***************************************************************************)
EXTENDS Integers, Sequences, FiniteSets, TLC

\* ------------------------------------------------------------------ bounds
\* Threads calling into one RansomWatchAPI / RateLimiter.
Threads == {"t1", "t2"}
\* Calls (wait_if_needed, get_stats, _make_request) started in one behaviour.
MaxCalls == 3
\* Steps in which time passes on its own, outside time.sleep.
MaxAdvances == 1
\* Ticks time.sleep may return late by.
MaxOvershoot == 1
\* Group names are tried in full up to this length.
MaxNameLen == 3

\* --------------------------------------------------------- program constants
Sec(n) == 10 * n
\* 60 in "current_time - self._request_times[0] > 60" and "60 - (...)".
Minute == Sec(60)
\* 1 in "current_time - t < 1" and 1.0 in "max(wait_time, 1.0)".
Second == Sec(1)
\* min(requests_per_minute, 60)
MaxPerMinute == 60
\* min(requests_per_second, 10)
MaxPerSecond == 10
\* max(min_interval, 0.1), in ticks
MinIntervalFloor == 1
\* config.RETRY_TOTAL
RETRY_TOTAL == 3

Min(a, b) == IF a <= b THEN a ELSE b
Max(a, b) == IF a >= b THEN a ELSE b

\* min_interval is a float: a number of ticks, or float('nan'), which
\* "--min-interval nan" parses to (argparse type=float, cli.py line 61).  NaN
\* stands for it, a value apart from every number of ticks in use; every
\* comparison with a float that may be NaN goes through FloatLess, false
\* whenever a side is NaN, as in Python.
NaN == -999999
FloatLess(a, b) == a # NaN /\ b # NaN /\ a < b
\* max(a, b) of Python: b if b > a, else a.
FloatMax(a, b) == IF FloatLess(a, b) THEN b ELSE a

\* Constructor arguments tried: zero, negative, in range and over range.
PerMinuteArgs == {-1, 0, 1, 2, 61}
PerSecondArgs == {0, 2, 11}
MinIntervalArgs == {0, 5, Sec(61)}
\* Values of time.time() when the limiter is constructed.
StartTimes == {0}
\* How far the clock moves in one step outside time.sleep.
Steps == {1, Second, Minute}

VARIABLES
  requests_per_minute,   \* self.requests_per_minute
  requests_per_second,   \* self.requests_per_second
  min_interval,          \* self.min_interval (ticks)
  args,                  \* the constructor's arguments, as passed
  lock,                  \* self._lock: the thread holding it, or "free"
  request_times,         \* self._request_times (deque, oldest first)
  last_request_time,     \* self._last_request_time
  clock,                 \* time.time()
  pc,                    \* per thread: where it is
  current_time,          \* per thread: local current_time
  wait_time,             \* per thread: local wait_time
  call_start,            \* per thread: clock when wait_if_needed was called
  time_read,             \* per thread: the current_time read at line 55
  in_request,            \* per thread: inside _make_request
  url,                   \* per thread: local url of _make_request
  returned,              \* the return or raise of the call just ended
  admitted,              \* history: every timestamp appended, in order
  get_calls,             \* history: session.get calls made
  calls,                 \* calls started so far
  completed,             \* history: wait_if_needed() calls that returned
  advances,              \* Advance steps taken so far
  cli,                   \* the RansomWatchCLI run: arguments, position, exit
  probe                  \* the validator last applied: input and result

vars == <<requests_per_minute, requests_per_second, min_interval, args, lock,
          request_times, last_request_time, clock, pc, current_time,
          wait_time, call_start, time_read, in_request, url, returned,
          admitted, get_calls, calls, completed, advances, cli, probe>>

config == <<requests_per_minute, requests_per_second, min_interval, args>>
limiter == <<lock, request_times, last_request_time, admitted>>
locals == <<current_time, wait_time, call_start, time_read>>
wire == <<get_calls>>
counters == <<calls, completed, advances>>
shell == <<cli, probe>>
\* All but probe: the validators read and write none of it.
program == <<config, limiter, clock, pc, locals, in_request, url, returned,
             wire, counters, cli>>

\* ----------------------------------------------------- RateLimiter.__init__
ClampPerMinute(n) == Min(n, MaxPerMinute)
ClampPerSecond(n) == Min(n, MaxPerSecond)
ClampMinInterval(x) == FloatMax(x, MinIntervalFloor)

NoReturn == [kind |-> "none"]
\* No RansomWatchCLI: the RateLimiter or RansomWatchAPI is used as a library.
NoCLI == [pc |-> "none"]
\* No validator has been applied.
NoProbe == [fn |-> "none"]
\* No URL: the thread is not inside _make_request.
NoUrl == [scheme |-> "", userinfo |-> "", host |-> "", port |-> "", path |-> ""]
Return(t, r) == [thread |-> t] @@ r

\* No call made yet, nothing recorded.
Fresh ==
  /\ lock = "free"
  /\ request_times = << >>
  /\ last_request_time = 0
  /\ clock \in StartTimes
  /\ pc = [t \in Threads |-> "idle"]
  /\ current_time = [t \in Threads |-> 0]
  /\ wait_time = [t \in Threads |-> 0]
  /\ call_start = [t \in Threads |-> 0]
  /\ time_read = [t \in Threads |-> 0]
  /\ get_calls = 0
  /\ in_request = [t \in Threads |-> FALSE]
  /\ url = [t \in Threads |-> NoUrl]
  /\ returned = NoReturn
  /\ admitted = << >>
  /\ calls = 0
  /\ completed = 0
  /\ advances = 0

\* A RateLimiter just constructed from a, before any call.
Constructed(a) ==
  /\ args = a
  /\ requests_per_minute = ClampPerMinute(args.rpm)
  /\ requests_per_second = ClampPerSecond(args.rps)
  /\ min_interval = ClampMinInterval(args.mi)
  /\ Fresh

\* RateLimiter(requests_per_minute, requests_per_second, min_interval)
Init ==
  /\ \E a \in [rpm : PerMinuteArgs, rps : PerSecondArgs, mi : MinIntervalArgs] :
       Constructed(a)
  /\ cli = NoCLI
  /\ probe = NoProbe

\* RansomWatchAPI(api_token, timeout, requests_per_minute,
\* requests_per_second, min_interval) hands its last three arguments to
\* RateLimiter as they are (api.py lines 39-43); their defaults are those of
\* config.py.
DEFAULT_REQUESTS_PER_MINUTE == 30
DEFAULT_REQUESTS_PER_SECOND == 2
MIN_REQUEST_INTERVAL == 5
DefaultArgs == [rpm |-> DEFAULT_REQUESTS_PER_MINUTE,
                rps |-> DEFAULT_REQUESTS_PER_SECOND,
                mi |-> MIN_REQUEST_INTERVAL]
APIArgs == {DefaultArgs,
            [rpm |-> 0, rps |-> DEFAULT_REQUESTS_PER_SECOND,
             mi |-> MIN_REQUEST_INTERVAL]}
InitAPI ==
  /\ \E a \in APIArgs : Constructed(a)
  /\ cli = NoCLI
  /\ probe = NoProbe

\* ------------------------------------------------------------------ helpers
\* The purge with ">= 60" for "> 60": an entry exactly 60 s old goes too.
RECURSIVE MutPurge(_, _)
MutPurge(q, now) ==
  IF q # << >> /\ now - Head(q) >= Minute THEN MutPurge(Tail(q), now) ELSE q

\* while self._request_times and current_time - self._request_times[0] > 60:
\*     self._request_times.popleft()
RECURSIVE Purge(_, _)
Purge(q, now) ==
  IF q # << >> /\ now - Head(q) > Minute THEN Purge(Tail(q), now) ELSE q

\* sum(1 for t in self._request_times if current_time - t < 1)
RecentRequests(q, now) ==
  Cardinality({i \in 1..Len(q) : now - q[i] < Second})

\* The per-minute wait with the age of the oldest entry added, not taken off.
MutWaitForMinute(q, now) ==
  LET wait_for_minute == Minute + (now - Head(q))
  IN  IF wait_for_minute > 0 THEN wait_for_minute ELSE 0

\* The per-minute wait, lines 61-65; q is not empty.
WaitForMinute(q, now) ==
  LET wait_for_minute == Minute - (now - Head(q))
  IN  IF wait_for_minute > 0 THEN wait_for_minute ELSE 0

\* The per-second wait, lines 67-69.
WaitForSecond(q, now, w) ==
  IF RecentRequests(q, now) >= requests_per_second THEN Max(w, Second) ELSE w

\* The min-interval wait with min() written for max().
MutWaitForInterval(now, w) ==
  LET time_since_last == now - last_request_time
  IN  IF FloatLess(time_since_last, min_interval)
      THEN Min(w, min_interval - time_since_last)
      ELSE w

\* The min-interval wait, lines 71-73.
WaitForInterval(now, w) ==
  LET time_since_last == now - last_request_time
  IN  IF FloatLess(time_since_last, min_interval)
      THEN Max(w, min_interval - time_since_last)
      ELSE w

\* ----------------------------------------------------------------- actions
\* A caller enters wait_if_needed() and reaches "with self._lock".
EnterWait(t) ==
  /\ pc' = [pc EXCEPT ![t] = "w_lock"]
  /\ call_start' = [call_start EXCEPT ![t] = clock]

CallWait(t) ==
  /\ pc[t] = "idle"
  /\ calls < MaxCalls
  /\ calls' = calls + 1
  /\ EnterWait(t)
  /\ UNCHANGED <<config, shell, limiter, clock, current_time, wait_time,
                 time_read, in_request, url, advances, completed,
                 wire>>
  /\ returned' = NoReturn

\* A lock that lets every caller in.
MutLockAvailable == TRUE

\* threading.Lock: "with self._lock" blocks until no thread holds the lock.
LockAvailable == lock = "free"

\* with self._lock: (wait_if_needed, line 54)
AcquireWait(t) ==
  /\ pc[t] = "w_lock"
  /\ LockAvailable
  /\ lock' = t
  /\ pc' = [pc EXCEPT ![t] = "w_eval"]
  /\ UNCHANGED <<config, shell, request_times, last_request_time, admitted,
                 clock, locals, in_request, url, counters, wire>>
  /\ returned' = NoReturn

\* self._request_times[0] on an empty deque raises IndexError (line 62).
RaisesIndexError(q) == Len(q) >= requests_per_minute /\ q = << >>

\* Lines 61-73 with the three waits added up.
MutRequiredWait(q, now) ==
  LET w1 == IF Len(q) >= requests_per_minute THEN WaitForMinute(q, now) ELSE 0
      w2 == WaitForSecond(q, now, 0)
      w3 == WaitForInterval(now, 0)
  IN  w1 + w2 + w3

\* Lines 61-73: the wait the three constraints ask for at time now.
RequiredWait(q, now) ==
  LET w1 == IF Len(q) >= requests_per_minute THEN WaitForMinute(q, now) ELSE 0
      w2 == WaitForSecond(q, now, w1)
  IN  WaitForInterval(now, w2)

\* Lines 55-73: read the clock, purge, work out the wait.  An IndexError
\* leaves the with block (releasing the lock) and reaches the caller;
\* _make_request catches no IndexError, so it reaches its caller as well.
Evaluate(t) ==
  /\ pc[t] = "w_eval"
  /\ LET now == clock
         q == Purge(request_times, now)
     IN /\ request_times' = q
        /\ IF RaisesIndexError(q)
           THEN /\ returned' = Return(t, [kind |-> "raised",
                                          error |-> "IndexError"])
                /\ lock' = "free"
                /\ pc' = [pc EXCEPT ![t] = "idle"]
                /\ call_start' = [call_start EXCEPT ![t] = 0]
                /\ in_request' = [in_request EXCEPT ![t] = FALSE]
                /\ url' = [url EXCEPT ![t] = NoUrl]
                /\ UNCHANGED <<wait_time, current_time, time_read>>
           ELSE /\ current_time' = [current_time EXCEPT ![t] = now]
                /\ time_read' = [time_read EXCEPT ![t] = now]
                /\ wait_time' = [wait_time EXCEPT ![t] = RequiredWait(q, now)]
                /\ pc' = [pc EXCEPT ![t] = IF wait_time'[t] > 0
                                           THEN "w_sleep" ELSE "w_record"]
                /\ returned' = NoReturn
                /\ UNCHANGED <<lock, call_start, in_request, url>>
  /\ UNCHANGED <<config, shell, last_request_time, admitted, clock, counters,
                 wire>>

\* Lines 75-77 without line 78: the clock is not read again after the sleep.
MutSleep(t) ==
  /\ pc[t] = "w_sleep"
  /\ \E late \in 0..MaxOvershoot : clock' = clock + wait_time[t] + late
  /\ pc' = [pc EXCEPT ![t] = "w_record"]
  /\ UNCHANGED <<config, shell, limiter, locals, in_request, url, counters,
                 wire>>
  /\ returned' = NoReturn

\* Lines 75-78: time.sleep(wait_time); current_time = time.time()
Sleep(t) ==
  /\ pc[t] = "w_sleep"
  /\ \E late \in 0..MaxOvershoot :
       /\ clock' = clock + wait_time[t] + late
       /\ current_time' = [current_time EXCEPT ![t] = clock']
  /\ pc' = [pc EXCEPT ![t] = "w_record"]
  /\ UNCHANGED <<config, shell, limiter, wait_time, call_start, time_read,
                 in_request, url, counters, wire>>
  /\ returned' = NoReturn

\* Lines 80-83 stamping the admission with the time the caller entered
\* wait_if_needed(), read before the lock was held.
MutRecord(t) ==
  /\ pc[t] = "w_record"
  /\ request_times' = Append(request_times, call_start[t])
  /\ last_request_time' = call_start[t]
  /\ admitted' = Append(admitted, call_start[t])
  /\ returned' = Return(t, [kind |-> "wait", value |-> wait_time[t],
                            admitted_at |-> call_start[t],
                            called_at |-> call_start[t],
                            read_at |-> time_read[t]])
  /\ lock' = "free"
  /\ pc' = [pc EXCEPT ![t] = IF in_request[t] THEN "m_get" ELSE "idle"]
  /\ current_time' = [current_time EXCEPT ![t] = 0]
  /\ wait_time' = [wait_time EXCEPT ![t] = 0]
  /\ call_start' = [call_start EXCEPT ![t] = 0]
  /\ time_read' = [time_read EXCEPT ![t] = 0]
  /\ completed' = completed + 1
  /\ UNCHANGED <<config, shell, clock, in_request, url, calls, advances,
                 wire>>

\* Lines 80-83: record the admission, return wait_time, release the lock.
\* Inside _make_request the caller goes on to session.get (api.py line 83).
Record(t) ==
  /\ pc[t] = "w_record"
  /\ request_times' = Append(request_times, current_time[t])
  /\ last_request_time' = current_time[t]
  /\ admitted' = Append(admitted, current_time[t])
  /\ returned' = Return(t, [kind |-> "wait", value |-> wait_time[t],
                            admitted_at |-> current_time[t],
                            called_at |-> call_start[t],
                            read_at |-> time_read[t]])
  /\ lock' = "free"
  /\ pc' = [pc EXCEPT ![t] = IF in_request[t] THEN "m_get" ELSE "idle"]
  /\ current_time' = [current_time EXCEPT ![t] = 0]
  /\ wait_time' = [wait_time EXCEPT ![t] = 0]
  /\ call_start' = [call_start EXCEPT ![t] = 0]
  /\ time_read' = [time_read EXCEPT ![t] = 0]
  /\ completed' = completed + 1
  /\ UNCHANGED <<config, shell, clock, in_request, url, calls, advances,
                 wire>>

\* A caller enters get_stats() and reaches "with self._lock".
CallStats(t) ==
  /\ pc[t] = "idle"
  /\ calls < MaxCalls
  /\ calls' = calls + 1
  /\ pc' = [pc EXCEPT ![t] = "s_lock"]
  /\ UNCHANGED <<config, shell, limiter, clock, locals, in_request, url,
                 advances, completed, wire>>
  /\ returned' = NoReturn

\* with self._lock: (get_stats, line 87)
AcquireStats(t) ==
  /\ pc[t] = "s_lock"
  /\ LockAvailable
  /\ lock' = t
  /\ pc' = [pc EXCEPT ![t] = "s_read"]
  /\ UNCHANGED <<config, shell, request_times, last_request_time, admitted,
                 clock, locals, in_request, url, counters, wire>>
  /\ returned' = NoReturn

\* get_stats() that also stamps _last_request_time with its own now.
MutReadStats(t) ==
  /\ pc[t] = "s_read"
  /\ LET now == clock
         q == Purge(request_times, now)
     IN /\ request_times' = q
        /\ returned' = Return(t,
              [kind |-> "stats",
               requests_last_minute |-> Len(q),
               requests_last_second |-> RecentRequests(q, now),
               max_requests_per_minute |-> requests_per_minute,
               max_requests_per_second |-> requests_per_second,
               min_interval |-> min_interval,
               time_since_last_request |-> now - last_request_time,
               purged |-> Len(request_times) - Len(q)])
  /\ lock' = "free"
  /\ pc' = [pc EXCEPT ![t] = "idle"]
  /\ last_request_time' = clock
  /\ UNCHANGED <<config, shell, admitted, clock, locals, in_request, url,
                 counters, wire>>

\* Lines 88-101: purge, count, return the snapshot, release the lock.
ReadStats(t) ==
  /\ pc[t] = "s_read"
  /\ LET now == clock
         q == Purge(request_times, now)
     IN /\ request_times' = q
        /\ returned' = Return(t,
              [kind |-> "stats",
               requests_last_minute |-> Len(q),
               requests_last_second |-> RecentRequests(q, now),
               max_requests_per_minute |-> requests_per_minute,
               max_requests_per_second |-> requests_per_second,
               min_interval |-> min_interval,
               time_since_last_request |-> now - last_request_time,
               purged |-> Len(request_times) - Len(q)])
  /\ lock' = "free"
  /\ pc' = [pc EXCEPT ![t] = "idle"]
  /\ UNCHANGED <<config, shell, last_request_time, admitted, clock, locals,
                 in_request, url, counters, wire>>

\* ------------------------------------------------------------------ strings
\* Strings are TLA+ strings; a character is a string of length 1.
Char(s, i) == SubSeq(s, i, i)

\* "sub in s" of Python.
Contains(s, sub) ==
  \E i \in 1..(Len(s) - Len(sub) + 1) : SubSeq(s, i, i + Len(sub) - 1) = sub

UpperCase == "ABCDEFGHIJKLMNOPQRSTUVWXYZ"
LowerCase == "abcdefghijklmnopqrstuvwxyz"
Digits == "0123456789"

LowerChar(c) ==
  IF Contains(UpperCase, c)
  THEN LET i == CHOOSE j \in 1..Len(UpperCase) : Char(UpperCase, j) = c
       IN  Char(LowerCase, i)
  ELSE c

\* c * n of Python.
RECURSIVE Repeat(_, _)
Repeat(c, n) == IF n = 0 THEN "" ELSE c \o Repeat(c, n - 1)

\* str.lower()
RECURSIVE Lower(_)
Lower(s) == IF s = "" THEN "" ELSE LowerChar(Char(s, 1)) \o Lower(Tail(s))

\* --------------------------------------------------------------- validators
\* utils.py lines 15-20.
ALLOWED_COMMANDS == {"groups", "recent", "info", "stats"}
MIN_TIMEOUT == 1
MAX_TIMEOUT == 300
MIN_LIMIT == 1
MAX_LIMIT == 1000
\* 100 in "len(name) > 100" and 50 in ALLOWED_GROUP_NAME_CHARS.
MaxRawNameLen == 100
MaxGroupNameLen == 50

\* validate_command, lines 196-207.
ValidateCommand(command) == command \in ALLOWED_COMMANDS

\* validate_timeout with "<=" for "<" at the lower end.
MutValidateTimeout(timeout) ==
  IF timeout <= MIN_TIMEOUT THEN FALSE
  ELSE IF timeout > MAX_TIMEOUT THEN FALSE
  ELSE TRUE

\* validate_timeout, lines 210-224, for an int.
ValidateTimeout(timeout) ==
  IF timeout < MIN_TIMEOUT THEN FALSE
  ELSE IF timeout > MAX_TIMEOUT THEN FALSE
  ELSE TRUE

\* validate_limit, lines 227-241, for an int.
ValidateLimit(limit) ==
  IF limit < MIN_LIMIT THEN FALSE
  ELSE IF limit > MAX_LIMIT THEN FALSE
  ELSE TRUE

\* The strings validate_group_name looks for, line 258 (NUL, which no TLA+
\* string holds, left out).
ForbiddenParts == {"<", ">", "&", "\"", "'", "/", "\\", ".."}

\* validate_group_name, lines 244-262, for a str.
ValidateGroupName(name) ==
  IF name = "" THEN FALSE
  ELSE IF Len(name) > MaxRawNameLen THEN FALSE
  ELSE IF \E part \in ForbiddenParts : Contains(name, part) THEN FALSE
  ELSE TRUE

\* str.strip(): white space off both ends.
Whitespace == {" ", "\t", "\n", "\r", "\f"}
RECURSIVE LStrip(_)
LStrip(s) ==
  IF s # "" /\ Char(s, 1) \in Whitespace THEN LStrip(Tail(s)) ELSE s
RECURSIVE RStrip(_)
RStrip(s) ==
  IF s # "" /\ Char(s, Len(s)) \in Whitespace
  THEN RStrip(SubSeq(s, 1, Len(s) - 1))
  ELSE s
Strip(s) == RStrip(LStrip(s))

\* The character class [a-z0-9\-].
GroupNameChars == LowerCase \o Digits \o "-"

\* re.sub(r'[^a-z0-9\-]', '', normalized), line 271.
RECURSIVE RemoveOthers(_)
RemoveOthers(s) ==
  IF s = "" THEN ""
  ELSE (IF Contains(GroupNameChars, Char(s, 1)) THEN Char(s, 1) ELSE "")
         \o RemoveOthers(Tail(s))

\* ALLOWED_GROUP_NAME_CHARS.match(s), line 16: ^[a-z0-9\-]{1,50}$, where $
\* also matches before a newline that ends the string.
FullMatch(s) ==
  /\ Len(s) >= 1
  /\ Len(s) <= MaxGroupNameLen
  /\ \A i \in 1..Len(s) : Contains(GroupNameChars, Char(s, i))
Match(s) ==
  \/ FullMatch(s)
  \/ /\ s # ""
     /\ Char(s, Len(s)) = "\n"
     /\ FullMatch(SubSeq(s, 1, Len(s) - 1))

\* normalize_group_name without the last check, lines 277-279.
MutNormalizeGroupName(name) ==
  IF ~ValidateGroupName(name) THEN {}
  ELSE LET normalized == RemoveOthers(Strip(Lower(name)))
       IN  IF normalized = "" THEN {}
           ELSE {normalized}

\* normalize_group_name, lines 265-281.  An Optional[str] is the set of the
\* string returned: {} for None.
NormalizeGroupName(name) ==
  IF ~ValidateGroupName(name) THEN {}
  ELSE LET normalized == RemoveOthers(Strip(Lower(name)))
       IN  IF normalized = "" THEN {}
           ELSE IF ~Match(normalized) THEN {}
           ELSE {normalized}

\* ------------------------------------------------- RansomWatchAPI requests
\* A URL is written by its parts, scheme://userinfo@host:port/path, with ""
\* for a part that is not there.  config.API_BASE is
\* https://api-pro.ransomware.live.  _build_url puts a "/" before an endpoint
\* that has none and joins it to API_BASE with urljoin: the scheme is always
\* that of API_BASE, and the host is too, unless the endpoint is a
\* network-path reference ("//host/path"), whose host replaces it.  An
\* endpoint is [host, path], host "" for a plain path.
API_HOST == "api-pro.ransomware.live"
\* The endpoints the threads hand _make_request: one whose URL validate_url
\* accepts and one whose URL it rejects.  The endpoints of
\* config.API_ENDPOINTS are all accepted and go the same way from there on.
Endpoints == {[host |-> "", path |-> "/groups"],
              [host |-> "evil.com", path |-> "/groups"]}

BuildUrl(endpoint) ==
  [scheme |-> "https",
   userinfo |-> "",
   host |-> IF endpoint.host = "" THEN API_HOST ELSE endpoint.host,
   port |-> "",
   path |-> endpoint.path]

\* urllib.parse.quote(path_component, safe=''): letters, digits and _ . - ~
\* stay, every other character becomes its percent code.
Unreserved == UpperCase \o LowerCase \o Digits \o "_.-~"
PercentCode(c) ==
  CASE c = " " -> "%20"
    [] c = "/" -> "%2F"
    [] c = "<" -> "%3C"
    [] c = ">" -> "%3E"
    [] c = "&" -> "%26"
    [] OTHER -> "%XX"
RECURSIVE Quote(_)
Quote(s) ==
  IF s = "" THEN ""
  ELSE (IF Contains(Unreserved, Char(s, 1)) THEN Char(s, 1)
        ELSE PercentCode(Char(s, 1))) \o Quote(Tail(s))

\* _build_url with a path component, lines 61-63:
\* urljoin(url + '/', quote(path_component, safe='')).  urljoin resolves the
\* dot segments "." and ".." and appends anything else.
BuildUrlWith(endpoint, path_component) ==
  LET base == BuildUrl(endpoint)
      safe_component == Quote(path_component)
  IN  [base EXCEPT !.path =
         CASE safe_component = ".." -> "/"
           [] safe_component = "." -> base.path \o "/"
           [] OTHER -> base.path \o "/" \o safe_component]

\* urlparse(url).netloc: the whole authority, userinfo@host:port, as written.
Netloc(u) ==
  (IF u.userinfo = "" THEN "" ELSE u.userinfo \o "@")
    \o u.host
    \o (IF u.port = "" THEN "" ELSE ":" \o u.port)

\* urlparse(url).scheme: lower-cased.
Scheme(u) == Lower(u.scheme)

\* urlparse raises ValueError ("Invalid IPv6 URL") for a netloc with one
\* square bracket and not the other.
UrlParseRaises(u) == Contains(Netloc(u), "[") # Contains(Netloc(u), "]")

\* utils.validate_url, lines 166-193.
ALLOWED_SCHEMES == {"https"}
ALLOWED_DOMAINS == {API_HOST}
SuspiciousParts ==
  {"localhost", "127.0.0.1", "0.0.0.0", "::1", "192.168.", "10.", "172.16.",
   "172.17.", "172.18.", "172.19.", "172.20.", "172.21.", "172.22.",
   "172.23.", "172.24.", "172.25.", "172.26.", "172.27.", "172.28.",
   "172.29.", "172.30.", "172.31."}
ValidateUrl(u) ==
  IF UrlParseRaises(u) THEN FALSE
  ELSE /\ Scheme(u) \in ALLOWED_SCHEMES
       /\ Netloc(u) \in ALLOWED_DOMAINS
       /\ ~\E suspicious \in SuspiciousParts :
              Contains(Lower(Netloc(u)), suspicious)

\* validate_url(url) for each URL the endpoints build, worked out once.
EndpointAccepted == [endpoint \in Endpoints |-> ValidateUrl(BuildUrl(endpoint))]

\* _make_request without line 78: straight from validate_url to session.get.
MutMakeRequest(t) ==
  /\ pc[t] = "idle"
  /\ calls < MaxCalls
  /\ calls' = calls + 1
  /\ \E endpoint \in Endpoints :
       IF EndpointAccepted[endpoint]
       THEN /\ pc' = [pc EXCEPT ![t] = "m_get"]
            /\ in_request' = [in_request EXCEPT ![t] = TRUE]
            /\ url' = [url EXCEPT ![t] = BuildUrl(endpoint)]
            /\ returned' = NoReturn
       ELSE /\ returned' = Return(t, [kind |-> "None", outcome |-> "rejected",
                                      sent |-> 0])
            /\ UNCHANGED <<pc, in_request, url>>
  /\ UNCHANGED <<config, shell, limiter, clock, locals, advances, completed,
                 wire>>

\* _make_request that stamps the limiter before it looks at the URL.
MutMakeRequestStamped(t) ==
  /\ pc[t] = "idle"
  /\ calls < MaxCalls
  /\ calls' = calls + 1
  /\ lock = "free"
  /\ request_times' = Append(request_times, clock)
  /\ last_request_time' = clock
  /\ admitted' = Append(admitted, clock)
  /\ \E endpoint \in Endpoints :
       IF EndpointAccepted[endpoint]
       THEN /\ pc' = [pc EXCEPT ![t] = "m_get"]
            /\ in_request' = [in_request EXCEPT ![t] = TRUE]
            /\ url' = [url EXCEPT ![t] = BuildUrl(endpoint)]
            /\ returned' = NoReturn
       ELSE /\ returned' = Return(t, [kind |-> "None", outcome |-> "rejected",
                                      sent |-> 0])
            /\ UNCHANGED <<pc, in_request, url>>
  /\ UNCHANGED <<config, shell, lock, clock, locals, advances, completed,
                 wire>>

\* _make_request, lines 71-78: build the URL; a URL that fails validate_url
\* returns None at once, any other goes on to rate_limiter.wait_if_needed().
MakeRequest(t) ==
  /\ pc[t] = "idle"
  /\ calls < MaxCalls
  /\ calls' = calls + 1
  /\ \E endpoint \in Endpoints :
       IF EndpointAccepted[endpoint]
       THEN /\ EnterWait(t)
            /\ in_request' = [in_request EXCEPT ![t] = TRUE]
            /\ url' = [url EXCEPT ![t] = BuildUrl(endpoint)]
            /\ returned' = NoReturn
       ELSE /\ returned' = Return(t, [kind |-> "None", outcome |-> "rejected",
                                      sent |-> 0])
            /\ UNCHANGED <<pc, call_start, in_request, url>>
  /\ UNCHANGED <<config, shell, limiter, clock, current_time, wait_time,
                 time_read, advances, completed, wire>>

\* What session.get, raise_for_status and response.json come to: the parsed
\* body ("ok"), or the exception raised.  HTTPError is raise_for_status on a
\* 4xx or 5xx response, RetryError the adapter giving up on a forcelist
\* status.
Outcomes == {"ok", "Timeout", "ConnectionError", "HTTPError", "RetryError",
             "RequestException", "JSONDecodeError"}

\* The classes an exception is an instance of (requests.exceptions).
Bases(exception) ==
  CASE exception = "Timeout" -> {"Timeout", "RequestException"}
    [] exception = "ConnectionError" -> {"ConnectionError", "RequestException"}
    [] exception = "HTTPError" -> {"HTTPError", "RequestException"}
    [] exception = "RetryError" -> {"RetryError", "RequestException"}
    [] exception = "RequestException" -> {"RequestException"}
    [] exception = "JSONDecodeError" -> {"JSONDecodeError"}

\* The except clauses without "except requests.RequestException".
MutCaught == {"Timeout", "ConnectionError", "JSONDecodeError"}

\* The except clauses of _make_request, lines 87-100; each returns None.
Caught == {"Timeout", "ConnectionError", "RequestException", "JSONDecodeError"}

\* What _make_request hands its caller for an outcome of the GET.
Handled(outcome) ==
  CASE outcome = "ok" -> "data"
    [] outcome # "ok" /\ Bases(outcome) \cap Caught # {} -> "None"
    [] OTHER -> "raised"

\* Lines 83-100: self.session.get(url, timeout=self.timeout) and what follows.
\* The session's HTTPAdapter carries Retry(total=RETRY_TOTAL,
\* status_forcelist=RETRY_STATUS_FORCELIST, allowed_methods=["GET"]) (lines
\* 45-52): inside the one session.get call the adapter sends the GET, and
\* sends it again after each response with one of those statuses while
\* retries are left.  The call returns the parsed body, or None for each
\* exception caught; sent is the number of GETs it put on the wire.
Get(t) ==
  /\ pc[t] = "m_get"
  /\ \E sent \in 1..(1 + RETRY_TOTAL), outcome \in Outcomes :
       returned' = Return(t, [kind |-> Handled(outcome),
                              outcome |-> outcome, sent |-> sent])
  /\ get_calls' = get_calls + 1
  /\ pc' = [pc EXCEPT ![t] = "idle"]
  /\ in_request' = [in_request EXCEPT ![t] = FALSE]
  /\ url' = [url EXCEPT ![t] = NoUrl]
  /\ UNCHANGED <<config, shell, limiter, clock, locals, counters>>

\* Time passes while no thread is inside the limiter or on its way in
\* (inside wait_if_needed() it passes in Sleep).
Advance ==
  /\ advances < MaxAdvances
  /\ \A t \in Threads : pc[t] \in {"idle", "m_get"}
  /\ \E d \in Steps : clock' = clock + d
  /\ advances' = advances + 1
  /\ UNCHANGED <<config, shell, limiter, pc, locals, in_request, url, calls,
                 completed, wire>>
  /\ returned' = NoReturn

Next ==
  \/ \E t \in Threads : CallWait(t)
  \/ \E t \in Threads : AcquireWait(t)
  \/ \E t \in Threads : Evaluate(t)
  \/ \E t \in Threads : Sleep(t)
  \/ \E t \in Threads : Record(t)
  \/ \E t \in Threads : CallStats(t)
  \/ \E t \in Threads : AcquireStats(t)
  \/ \E t \in Threads : ReadStats(t)
  \/ Advance

\* Threads calling wait_if_needed() and get_stats() of one RateLimiter.
Spec == Init /\ [][Next]_vars

NextAPI ==
  \/ \E t \in Threads : MakeRequest(t)
  \/ \E t \in Threads : AcquireWait(t)
  \/ \E t \in Threads : Evaluate(t)
  \/ \E t \in Threads : Sleep(t)
  \/ \E t \in Threads : Record(t)
  \/ \E t \in Threads : Get(t)
  \/ \E t \in Threads : CallStats(t)
  \/ \E t \in Threads : AcquireStats(t)
  \/ \E t \in Threads : ReadStats(t)
  \/ Advance

\* Threads calling the request methods and get_rate_limit_stats() of one
\* RansomWatchAPI.
SpecAPI == InitAPI /\ [][NextAPI]_vars

\* ---------------------------------------------------------- RansomWatchCLI
\* The CLI runs one command on the main thread.
MainThread == "t1"

\* What parse_args hands run(): command is "" when no subcommand was given
\* (None), limit is there for "recent" and group for "info" only (10 and ""
\* stand in elsewhere, where the code reads neither).  The numbers are at
\* and around the ends of the ranges; min_interval is in ticks.
Base ==
  [timeout : {0, 1, 300, 301},
   rate_limit_per_minute : {0, 1, 60, 61},
   rate_limit_per_second : {0, 1, 10, 11},
   min_interval : {0, 1, Sec(60), Sec(60) + 1, NaN}]
Commands ==
  [command : {"", "groups", "stats"}, limit : {10}, group : {""}]
    \cup [command : {"recent"}, limit : {0, 10, 1001}, group : {""}]
    \cup [command : {"info"}, limit : {10},
          group : {"LockBit3 ", "lock.bit", "../etc", "___",
                   Repeat("a", MaxGroupNameLen + 1)}]
ParsedArgs == {b @@ c : b \in Base, c \in Commands}

\* _validate_args, lines 85-109.
ValidateArgs(a) ==
  IF ~ValidateCommand(a.command) THEN FALSE
  ELSE IF ~ValidateTimeout(a.timeout) THEN FALSE
  ELSE IF a.rate_limit_per_minute <= 0 \/ a.rate_limit_per_minute > 60
       THEN FALSE
  ELSE IF a.rate_limit_per_second <= 0 \/ a.rate_limit_per_second > 10
       THEN FALSE
  ELSE IF FloatLess(a.min_interval, 1) \/ FloatLess(Sec(60), a.min_interval)
       THEN FALSE
  ELSE IF a.command = "recent" /\ ~ValidateLimit(a.limit) THEN FALSE
  ELSE TRUE

\* A RansomWatchCLI about to run: no RansomWatchAPI yet (self.api is None),
\* so no RateLimiter; its fields read 0 until one is made.
InitCLI ==
  /\ Fresh
  /\ args = [rpm |-> 0, rps |-> 0, mi |-> 0]
  /\ requests_per_minute = 0 /\ requests_per_second = 0 /\ min_interval = 0
  /\ cli \in [pc : {"run"}, parsed : ParsedArgs, token : BOOLEAN,
              api : {FALSE}, api_called : {FALSE}, exit_code : {{}}]
  /\ probe = NoProbe

\* cli.run() returns code.
Exit(code) == cli' = [cli EXCEPT !.pc = "exit", !.exit_code = {code}]

\* run(), lines 133-155: no command, arguments _validate_args refuses or no
\* API token end the run with 1; otherwise the RansomWatchAPI is made, and
\* with it its RateLimiter, from the arguments as parsed.
Run ==
  /\ cli.pc = "run"
  /\ LET a == cli.parsed
     IN  IF a.command = "" \/ ~ValidateArgs(a) \/ ~cli.token
         THEN /\ Exit(1)
              /\ UNCHANGED config
         ELSE /\ args' = [rpm |-> a.rate_limit_per_minute,
                          rps |-> a.rate_limit_per_second,
                          mi |-> a.min_interval]
              /\ requests_per_minute' = ClampPerMinute(a.rate_limit_per_minute)
              /\ requests_per_second' = ClampPerSecond(a.rate_limit_per_second)
              /\ min_interval' = ClampMinInterval(a.min_interval)
              /\ cli' = [cli EXCEPT !.pc = "execute", !.api = TRUE]
  /\ returned' = NoReturn
  /\ UNCHANGED <<limiter, clock, pc, locals, in_request, url, wire, counters,
                 probe>>

\* config.API_ENDPOINTS, and the endpoint get_group_info names (line 123).
API_ENDPOINTS ==
  [groups |-> [host |-> "", path |-> "/groups"],
   recent |-> [host |-> "", path |-> "/victims/recent"],
   stats |-> [host |-> "", path |-> "/stats"]]
GroupsEndpoint == [host |-> "", path |-> "/groups"]

\* get_group_info handing _make_request the name as typed, lower-cased and
\* stripped, in place of the normalized one.
MutGetGroupInfo(group_name) ==
  {BuildUrlWith(GroupsEndpoint, Strip(Lower(group_name))) :
     normalized_name \in NormalizeGroupName(group_name)}

\* get_group_info, lines 112-123: the URL it has _make_request build, none
\* when normalize_group_name returns None.
GetGroupInfo(group_name) ==
  {BuildUrlWith(GroupsEndpoint, normalized_name) :
     normalized_name \in NormalizeGroupName(group_name)}

\* _cmd_info stops at a name validate_group_name refuses (lines 223-227);
\* every other command calls its API method.
CallsApi(a) == a.command # "info" \/ ValidateGroupName(a.group)

\* The URL the command's API method has _make_request build.
CommandUrl(a) ==
  CASE a.command = "groups" -> {BuildUrl(API_ENDPOINTS.groups)}
    [] a.command = "recent" -> {BuildUrl(API_ENDPOINTS.recent)}
    [] a.command = "stats" -> {BuildUrl(API_ENDPOINTS.stats)}
    [] a.command = "info" -> GetGroupInfo(a.group)

\* _execute_command and _cmd_groups, _cmd_recent, _cmd_info, _cmd_stats, up
\* to "with self._lock" inside wait_if_needed(): a name refused, a name that
\* normalizes to nothing or a URL validate_url rejects ends the run with 1.
Execute ==
  /\ cli.pc = "execute"
  /\ LET a == cli.parsed
         urls == IF CallsApi(a)
                 THEN {u \in CommandUrl(a) : ValidateUrl(u)}
                 ELSE {}
     IN  IF urls = {}
         THEN /\ cli' = [cli EXCEPT !.pc = "exit", !.exit_code = {1},
                                    !.api_called = CallsApi(a)]
              /\ UNCHANGED <<pc, call_start, in_request, url>>
         ELSE /\ cli' = [cli EXCEPT !.pc = "request", !.api_called = TRUE]
              /\ EnterWait(MainThread)
              /\ in_request' = [in_request EXCEPT ![MainThread] = TRUE]
              /\ \E u \in urls : url' = [url EXCEPT ![MainThread] = u]
  /\ returned' = NoReturn
  /\ UNCHANGED <<config, limiter, clock, current_time, wait_time, time_read,
                 wire, counters, probe>>

\* The API method has returned: None, or an exception nothing catches, ends
\* the run with 1; data is formatted, which ends it with 0 or 1.
Finish ==
  /\ cli.pc = "request"
  /\ pc[MainThread] = "idle"
  /\ returned.kind \in {"data", "None", "raised"}
  /\ \E code \in (IF returned.kind = "data" THEN {0, 1} ELSE {1}) : Exit(code)
  /\ returned' = NoReturn
  /\ UNCHANGED <<config, limiter, clock, pc, locals, in_request, url, wire,
                 counters, probe>>

NextCLI ==
  \/ Run
  \/ Execute
  \/ AcquireWait(MainThread)
  \/ Evaluate(MainThread)
  \/ Sleep(MainThread)
  \/ Record(MainThread)
  \/ Get(MainThread)
  \/ Finish

\* One run of the command line tool.
SpecCLI == InitCLI /\ [][NextCLI]_vars

\* ------------------------------------------------ the validators on their own
\* The inputs the validators are tried on.
NameAlphabet == {"a", "B", "3", "-", " ", ".", "/", "_", "<"}
RECURSIVE NamesUpTo(_)
NamesUpTo(n) ==
  IF n = 0 THEN {""}
  ELSE LET shorter == NamesUpTo(n - 1)
       IN  shorter \cup {s \o c : s \in shorter, c \in NameAlphabet}
LongNames ==
  {Repeat("a", MaxGroupNameLen), Repeat("a", MaxGroupNameLen + 1),
   Repeat("a", MaxRawNameLen), Repeat("a", MaxRawNameLen + 1),
   Repeat("a", MaxGroupNameLen) \o Repeat("_", MaxGroupNameLen),
   Repeat("a", MaxGroupNameLen + 1) \o "_",
   Repeat("_", MaxRawNameLen),
   "LockBit3 ", "../etc", "lock.bit", "a&b", "a>b", "a'b", "a\"b", "a\\b",
   "Black Basta\n"}
GroupNameInputs == NamesUpTo(MaxNameLen) \cup LongNames
TimeoutInputs == (MIN_TIMEOUT - 2)..(MAX_TIMEOUT + 2)
LimitInputs == (MIN_LIMIT - 2)..(MAX_LIMIT + 2)
UrlInputs ==
  [scheme : {"https", "HTTPS", "http", "ftp"},
   userinfo : {"", "user", API_HOST},
   host : {API_HOST, "evil.com", "192.168.1.1", "localhost",
           "api-pro.ransomware.live.evil.com", "[::1"},
   port : {"", "443"},
   path : {"/groups"}]

\* A validator about to be called on an input.
Pending(fn, inputs) == [fn : {fn}, input : inputs, applied : {FALSE}]
Applied(result) ==
  [fn |-> probe.fn, input |-> probe.input, applied |-> TRUE,
   result |-> result]

InitValidators ==
  /\ Constructed(DefaultArgs)
  /\ cli = NoCLI
  /\ probe \in Pending("validate_url", UrlInputs)
                 \cup Pending("validate_timeout", TimeoutInputs)
                 \cup Pending("validate_limit", LimitInputs)
                 \cup Pending("validate_group_name", GroupNameInputs)
                 \cup Pending("normalize_group_name", GroupNameInputs)

ApplyValidateUrl ==
  /\ probe.fn = "validate_url" /\ ~probe.applied
  /\ probe' = Applied(ValidateUrl(probe.input))
  /\ UNCHANGED program

ApplyValidateTimeout ==
  /\ probe.fn = "validate_timeout" /\ ~probe.applied
  /\ probe' = Applied(ValidateTimeout(probe.input))
  /\ UNCHANGED program

ApplyValidateLimit ==
  /\ probe.fn = "validate_limit" /\ ~probe.applied
  /\ probe' = Applied(ValidateLimit(probe.input))
  /\ UNCHANGED program

ApplyValidateGroupName ==
  /\ probe.fn = "validate_group_name" /\ ~probe.applied
  /\ probe' = Applied(ValidateGroupName(probe.input))
  /\ UNCHANGED program

ApplyNormalizeGroupName ==
  /\ probe.fn = "normalize_group_name" /\ ~probe.applied
  /\ probe' = Applied(NormalizeGroupName(probe.input))
  /\ UNCHANGED program

NextValidators ==
  \/ ApplyValidateUrl
  \/ ApplyValidateTimeout
  \/ ApplyValidateLimit
  \/ ApplyValidateGroupName
  \/ ApplyNormalizeGroupName

\* Each validator of utils.py called once on one input.
SpecValidators == InitValidators /\ [][NextValidators]_vars

\* ------------------------------------------------------------------ claims
\* The admitted timestamps inside the window (T - length, T].
InWindow(T, length) ==
  {i \in 1..Len(admitted) : admitted[i] <= T /\ T - admitted[i] < length}

\* The constructor's arguments lie in the documented ranges.
ArgsInRange ==
  /\ args.rpm \in 1..MaxPerMinute
  /\ args.rps \in 1..MaxPerSecond
  /\ args.mi >= MinIntervalFloor

\* C1: no 60-second window holds more than requests_per_minute admitted
\* timestamps.  A window with the most timestamps ends at one of them.
\* Stated for arguments in the documented ranges, where the constructor
\* clamps nothing: it fails there already.
C1_PerMinuteCap ==
  ArgsInRange =>
    \A i \in 1..Len(admitted) :
      Cardinality(InWindow(admitted[i], Minute)) <= requests_per_minute

\* C2: two consecutive admitted timestamps are at least min_interval apart.
C2_MinIntervalGap ==
  \A i \in 1..(Len(admitted) - 1) :
    admitted[i + 1] - admitted[i] >= min_interval

\* C2 witness: a caller was held back by the min-interval rule alone and
\* admitted exactly min_interval after the admission before it.
C2_Witness ==
  /\ Len(admitted) >= 2
  /\ admitted[2] - admitted[1] = min_interval
  /\ min_interval < Second

\* C3: no 1-second window holds more than requests_per_second admitted
\* timestamps, whatever the callers and their interleaving.
C3_PerSecondCap ==
  \A i \in 1..Len(admitted) :
    Cardinality(InWindow(admitted[i], Second)) <= requests_per_second

\* C3, for limiters whose requests_per_second the constructor left at 1 or
\* more: there the cap holds (a lemma beside the claim, which puts no such
\* condition).
PerSecondCapFromOne == requests_per_second >= 1 => C3_PerSecondCap

\* C4: whenever no call is inside the limiter, _request_times holds at most
\* requests_per_minute entries.  Stated for arguments in the documented
\* ranges, where the constructor clamps nothing: it fails there already.
C4_QueueWithinCap ==
  (ArgsInRange /\ lock = "free") => Len(request_times) <= requests_per_minute

\* C4, as get_stats() reports it: requests_last_minute is at most
\* max_requests_per_minute (again for arguments in range).
StatsWithinCap ==
  (ArgsInRange /\ returned.kind = "stats")
     => returned.requests_last_minute <= returned.max_requests_per_minute

\* C5: a constructed RateLimiter has requests_per_minute in [1,60],
\* requests_per_second in [1,10] and min_interval of 0.1 s or more.
C5_Clamped ==
  /\ requests_per_minute \in 1..MaxPerMinute
  /\ requests_per_second \in 1..MaxPerSecond
  /\ min_interval >= MinIntervalFloor

\* C6: no call on the limiter raises to its caller.
C6_NeverRaises == returned.kind # "raised"

\* C7: a caller that holds the lock inside wait_if_needed() leaves it only
\* by recording its timestamp and releasing the lock; it is never turned
\* away.  (The part of the claim a finite run refutes.)
InWait(p) == p \in {"w_eval", "w_sleep", "w_record"}
C7_HolderIsAdmitted ==
  [][\A t \in Threads :
       (InWait(pc[t]) /\ ~InWait(pc'[t]))
          => /\ admitted' = Append(admitted, current_time[t])
             /\ lock' = "free"]_vars

\* C8: at most one thread is between acquiring and releasing the lock, in
\* wait_if_needed() or in get_stats(), and it is the one the lock names.
InCritical(p) == InWait(p) \/ p = "s_read"
C8_MutualExclusion ==
  /\ Cardinality({t \in Threads : InCritical(pc[t])}) <= 1
  /\ \A t \in Threads : InCritical(pc[t]) <=> lock = t

\* C8 witness: one thread sleeps inside wait_if_needed() holding the lock
\* while another waits for the lock in get_stats() or wait_if_needed().
C8_Witness ==
  \E t, u \in Threads :
    /\ pc[t] = "w_sleep" /\ lock = t
    /\ pc[u] \in {"w_lock", "s_lock"}

\* The epsilon of C9: the most time.sleep returns late by.
Epsilon == MaxOvershoot

C11_RejectedTouchesNothing ==
  [][(returned'.kind \in {"None", "raised"}
        /\ "outcome" \in DOMAIN returned' /\ returned'.outcome = "rejected")
       => /\ returned'.kind = "None"
          /\ returned'.sent = 0
          /\ request_times' = request_times
          /\ last_request_time' = last_request_time
          /\ admitted' = admitted
          /\ get_calls' = get_calls
          /\ lock' = lock
          /\ pc' = pc]_vars

\* C11 witness: a request is rejected while another thread sleeps inside
\* wait_if_needed() holding the lock, the deque not empty.
C11_Witness ==
  /\ returned.kind = "None"
  /\ returned.outcome = "rejected"
  /\ request_times # << >>
  /\ \E t \in Threads : pc[t] = "w_sleep" /\ lock = t

\* s is q without some of its first entries.
IsSuffix(s, q) ==
  /\ Len(s) <= Len(q)
  /\ \A i \in 1..Len(s) : s[i] = q[Len(q) - Len(s) + i]

\* C12: the step in which get_stats() returns appends nothing, leaves
\* _last_request_time and the caps alone, drops from _request_times only
\* entries more than 60 s older than its now, and reports
\* requests_last_second <= requests_last_minute.
C12_StatsReadOnly ==
  [][returned'.kind = "stats"
       => /\ last_request_time' = last_request_time
          /\ admitted' = admitted
          /\ requests_per_minute' = requests_per_minute
          /\ requests_per_second' = requests_per_second
          /\ min_interval' = min_interval
          /\ IsSuffix(request_times', request_times)
          /\ \A i \in 1..(Len(request_times) - Len(request_times')) :
               clock - request_times[i] > Minute
          /\ returned'.requests_last_second
               <= returned'.requests_last_minute
          /\ returned'.requests_last_minute = Len(request_times')]_vars

\* C12 witness: a get_stats() that purged an entry and still counts one,
\* none of them in the last second.
C12_Witness ==
  /\ returned.kind = "stats"
  /\ returned.purged >= 1
  /\ returned.requests_last_minute >= 1

\* C13: the value wait_if_needed() returns is at least 0 and at most
\* max(60, 1, min_interval) seconds.
C13_WaitBounded ==
  returned.kind = "wait" =>
    /\ returned.value >= 0
    /\ returned.value <= Max(Minute, Max(Second, min_interval))

\* C13 witness: a call returns the whole bound, 60 s, having found the
\* per-minute cap just filled.
C13_Witness ==
  /\ returned.kind = "wait"
  /\ min_interval <= Minute
  /\ returned.value = Minute

\* The arguments as the claim lists them: the command on the allow-list,
\* timeout in [1,300], rate-limit-per-minute in [1,60], rate-limit-per-second
\* in [1,10], min-interval in [0.1,60] s, and limit in [1,1000] for "recent".
InRange(x, low, high) == x # NaN /\ low <= x /\ x <= high
SettingsInRange(rpm, rps, mi) ==
  /\ InRange(rpm, 1, 60)
  /\ InRange(rps, 1, 10)
  /\ InRange(mi, 1, Sec(60))

\* C14: when _validate_args refuses the arguments, run() returns non-zero
\* and no RansomWatchAPI is made, no admission and no request; so every
\* RateLimiter made through the CLI has its three settings inside the
\* ranges.
C14_CLISettingsInRange ==
  /\ (cli.pc # "run" /\ ~ValidateArgs(cli.parsed))
       => /\ cli.exit_code = {1}
          /\ ~cli.api
          /\ admitted = << >>
          /\ get_calls = 0
  /\ cli.api
       => SettingsInRange(requests_per_minute, requests_per_second,
                          min_interval)

\* C14, the half that holds: arguments outside the ranges, a number among
\* them, never get as far as a RansomWatchAPI.
RefusedArgsMakeNothing ==
  LET a == cli.parsed
  IN  (/\ cli.pc # "run"
       /\ \/ a.command \notin {"groups", "recent", "info", "stats"}
          \/ ~InRange(a.timeout, 1, 300)
          \/ ~InRange(a.rate_limit_per_minute, 1, 60)
          \/ ~InRange(a.rate_limit_per_second, 1, 10)
          \/ (a.min_interval # NaN /\ ~InRange(a.min_interval, 1, Sec(60)))
          \/ (a.command = "recent" /\ ~InRange(a.limit, 1, 1000)))
        => /\ cli.exit_code = {1}
           /\ ~cli.api
           /\ admitted = << >>
           /\ get_calls = 0

\* The characters of s are all letters a-z, digits or "-".
OnlyGroupNameChars(s) ==
  \A i \in 1..Len(s) :
    Char(s, i) \in {Char("abcdefghijklmnopqrstuvwxyz0123456789-", j) :
                      j \in 1..37}

\* C15: the "info" command puts a GET on the wire only for a name
\* normalize_group_name accepts, and the URL it asks for is
\* https://api-pro.ransomware.live/groups/<the normalized name>, 1 to 50
\* characters of [a-z0-9-]; a name normalization rejects ends with None (exit
\* code 1), no URL built, no admission, no GET; a name validate_group_name
\* refuses ends with exit code 1 before any API method is called.
C15_OnlyNormalizedNames ==
  cli.parsed.command = "info" =>
    LET name == cli.parsed.group
        normalized == NormalizeGroupName(name)
    IN  /\ (url[MainThread] # NoUrl \/ admitted # << >> \/ get_calls > 0)
             => /\ normalized # {}
                /\ \A n \in normalized :
                     /\ Len(n) >= 1 /\ Len(n) <= 50 /\ OnlyGroupNameChars(n)
                     /\ url[MainThread] # NoUrl =>
                          /\ url[MainThread].scheme = "https"
                          /\ url[MainThread].host = "api-pro.ransomware.live"
                          /\ url[MainThread].userinfo = ""
                          /\ url[MainThread].port = ""
                          /\ url[MainThread].path = "/groups/" \o n
        /\ (normalized = {} /\ cli.pc \notin {"run", "execute"})
             => /\ cli.pc = "exit" /\ cli.exit_code = {1}
                /\ url[MainThread] = NoUrl
                /\ pc[MainThread] = "idle"
                /\ admitted = << >>
                /\ get_calls = 0
        /\ (~ValidateGroupName(name) /\ cli.pc \notin {"run", "execute"})
             => /\ cli.pc = "exit" /\ cli.exit_code = {1}
                /\ ~cli.api_called

\* C15 witness: "info --group lock.bit" is about to send its GET, for
\* /groups/lockbit.
C15_Witness ==
  /\ cli.pc = "request"
  /\ cli.parsed.group = "lock.bit"
  /\ pc[MainThread] = "m_get"
  /\ url[MainThread].path = "/groups/lockbit"

\* C16: whatever the GET comes to other than a parsed body (a timeout, a
\* connection error, an HTTP error status, retries run out, any other
\* request error, a body that is no JSON), _make_request returns None and
\* does not raise.
C16_FailuresReturnNone ==
  (/\ returned.kind \in {"data", "None", "raised"}
   /\ "outcome" \in DOMAIN returned
   /\ returned.outcome \notin {"ok", "rejected"})
     => returned.kind = "None"

\* C16 witness: raise_for_status() raised HTTPError and the call returned
\* None.
C16_Witness ==
  /\ returned.kind = "None"
  /\ returned.outcome = "HTTPError"
  /\ returned.sent = 1

\* A validator was called on x and returned.
Called(fn) == probe.fn = fn /\ probe.applied

\* C17: validate_url(url) is true exactly when the URL's scheme is https,
\* its host is api-pro.ransomware.live and the host holds no entry of the
\* blocklist; it never raises.
C17_AcceptsExactly ==
  Called("validate_url") =>
    LET u == probe.input
    IN  probe.result = (/\ Lower(u.scheme) = "https"
                        /\ u.host = "api-pro.ransomware.live"
                        /\ ~\E part \in SuspiciousParts :
                               Contains(Lower(u.host), part))

\* C17, the half that holds: a URL validate_url accepts has the scheme
\* https and the host api-pro.ransomware.live (and neither userinfo nor
\* port); the three URLs the claim names are rejected.
AcceptedUrlIsAllowed ==
  Called("validate_url") =>
    LET u == probe.input
    IN  /\ probe.result =>
             /\ Lower(u.scheme) = "https"
             /\ u.host = "api-pro.ransomware.live"
             /\ u.userinfo = "" /\ u.port = ""
        /\ u.scheme = "http" => ~probe.result
        /\ u.host \in {"evil.com", "192.168.1.1"} => ~probe.result

\* Python's "in" for the parts validate_group_name refuses.
HasForbidden(s) ==
  \/ \E i \in 1..Len(s) : Char(s, i) \in {"<", ">", "&", "\"", "'", "/", "\\"}
  \/ \E i \in 1..(Len(s) - 1) : Char(s, i) = "." /\ Char(s, i + 1) = "."

\* The characters of s that are letters a-z, digits or "-", in order.
RECURSIVE Stripped(_)
Stripped(s) ==
  IF s = "" THEN ""
  ELSE (IF OnlyGroupNameChars(Char(s, 1)) THEN Char(s, 1) ELSE "")
         \o Stripped(Tail(s))

\* C18: normalize_group_name returns None or a string of 1 to 50 characters
\* of [a-z0-9-]; None whenever the name is empty, longer than 100, holds a
\* forbidden part, strips to nothing or strips to more than 50 characters;
\* "LockBit3 " gives "lockbit3" and "../etc" is rejected.
C18_NormalizedOrRejected ==
  Called("normalize_group_name") =>
    LET name == probe.input
        result == probe.result
    IN  /\ \A s \in result :
             Len(s) >= 1 /\ Len(s) <= 50 /\ OnlyGroupNameChars(s)
        /\ Cardinality(result) <= 1
        /\ (name = "" \/ Len(name) > 100 \/ HasForbidden(name)) => result = {}
        /\ Stripped(Lower(name)) = "" => result = {}
        /\ Len(Stripped(Lower(name))) > 50 => result = {}
        /\ name = "LockBit3 " => result = {"lockbit3"}
        /\ name = "../etc" => result = {}

\* C18 witness: a name validate_group_name accepts, 100 characters long,
\* is rejected because 51 of them are left after stripping.
C18_Witness ==
  /\ Called("normalize_group_name")
  /\ Len(probe.input) <= 100
  /\ ~HasForbidden(probe.input)
  /\ Len(Stripped(Lower(probe.input))) = 51
  /\ probe.result = {}

\* C19: validate_timeout(x) is true exactly when 1 <= x <= 300 and
\* validate_limit(x) exactly when 1 <= x <= 1000.
C19_RangesExact ==
  /\ Called("validate_timeout")
       => probe.result = (1 <= probe.input /\ probe.input <= 300)
  /\ Called("validate_limit")
       => probe.result = (1 <= probe.input /\ probe.input <= 1000)

\* C19 witness: the timeout 301 was refused.
C19_Witness ==
  /\ Called("validate_timeout")
  /\ probe.input = 301
  /\ probe.result = FALSE

\* The wait each constraint asks for on its own, at time now, from the
\* entries of the deque not yet more than 60 s old.
Kept(q, now) ==
  LET Young(e) == now - e <= Minute IN SelectSeq(q, Young)
NeedForMinute(q, now) ==
  IF Len(q) >= requests_per_minute /\ q # << >> /\ Minute - (now - q[1]) > 0
  THEN Minute - (now - q[1])
  ELSE 0
NeedForSecond(q, now) ==
  IF Cardinality({i \in 1..Len(q) : now - q[i] < Second})
       >= requests_per_second
  THEN Second
  ELSE 0
NeedForInterval(now) ==
  IF now - last_request_time < min_interval
  THEN min_interval - (now - last_request_time)
  ELSE 0
Max3(a, b, c) == Max(a, Max(b, c))

\* C20: a call that gets past the three checks has measured each against
\* the one now it read, and its wait is the largest of the three waits; it
\* sleeps at most once, for that wait, and returns that wait.
C20_MaxOfThreeOnce ==
  [][\A t \in Threads :
       /\ (pc[t] = "w_eval" /\ pc'[t] \in {"w_sleep", "w_record"})
            => /\ time_read'[t] = clock
               /\ wait_time'[t] =
                    Max3(NeedForMinute(Kept(request_times, clock), clock),
                         NeedForSecond(Kept(request_times, clock), clock),
                         NeedForInterval(clock))
               /\ pc'[t] = "w_sleep" <=> wait_time'[t] > 0
       /\ (pc[t] = "w_sleep" /\ pc'[t] # "w_sleep")
            => /\ pc'[t] = "w_record"
               /\ wait_time'[t] = wait_time[t]
               /\ clock' - clock >= wait_time[t]
               /\ clock' - clock <= wait_time[t] + MaxOvershoot
       /\ (pc[t] = "w_record" /\ pc'[t] # "w_record")
            => /\ returned'.kind = "wait"
               /\ returned'.value = wait_time[t]]_vars

\* C20 witness: a caller sleeps with both the per-minute and the
\* min-interval rule asking for a wait, for the larger of the two.
C20_Witness ==
  \E t \in Threads :
    /\ pc[t] = "w_sleep"
    /\ NeedForMinute(request_times, time_read[t]) > 0
    /\ NeedForInterval(time_read[t]) > 0
    /\ NeedForInterval(time_read[t])
         < NeedForMinute(request_times, time_read[t])
    /\ wait_time[t] = NeedForMinute(request_times, time_read[t])

\* q is ordered oldest first.
Sorted(q) == \A i \in 1..(Len(q) - 1) : q[i] <= q[i + 1]

\* C21: admissions are recorded in the order the callers held the lock:
\* _request_times and the history of all admissions are ordered oldest
\* first, the timestamp a lock holder is about to record is not older than
\* any recorded before it, and _last_request_time is the newest entry of a
\* _request_times that is not empty.
C21_LockOrder ==
  /\ Sorted(request_times)
  /\ Sorted(admitted)
  /\ \A t \in Threads :
       pc[t] = "w_record" =>
         \A i \in 1..Len(admitted) : admitted[i] <= current_time[t]
  /\ request_times # << >> =>
       last_request_time = request_times[Len(request_times)]

\* C21 witness: a caller that queued for the lock while its holder slept
\* has recorded a later timestamp behind the holder's.
C21_Witness ==
  /\ returned.kind = "wait"
  /\ returned.called_at < returned.read_at
  /\ Len(request_times) >= 2
  /\ request_times[Len(request_times) - 1] < request_times[Len(request_times)]
  /\ request_times[Len(request_times)] = returned.admitted_at

\* The entries q holds in front of those of s, s a suffix of q.
Departed(q, s) == {q[i] : i \in 1..(Len(q) - Len(s))}

\* C22: a step in which a wait_if_needed() call returns appends one
\* timestamp to _request_times, the one it sets _last_request_time to; every
\* other step records nothing and takes entries off _request_times only
\* from the front, each more than 60 s older than the clock (one exactly
\* 60 s old stays).  So the entries ever recorded are as many as the calls
\* that returned.
C22_OneEntryPerCall ==
  /\ [](Len(admitted) = completed)
  /\ [][IF returned'.kind = "wait"
        THEN /\ completed' = completed + 1
             /\ admitted' = Append(admitted, returned'.admitted_at)
             /\ request_times' = Append(request_times, returned'.admitted_at)
             /\ last_request_time' = returned'.admitted_at
        ELSE /\ completed' = completed
             /\ admitted' = admitted
             /\ last_request_time' = last_request_time
             /\ IsSuffix(request_times', request_times)
             /\ \A e \in Departed(request_times, request_times') :
                  clock - e > Minute]_vars

\* C22 witness: a call returns having recorded its timestamp behind an
\* entry exactly 60 s old, which the purge of that call kept while
\* it dropped an older one.
C22_Witness ==
  /\ returned.kind = "wait"
  /\ Len(admitted) = 3
  /\ Len(request_times) = 2
  /\ returned.read_at - request_times[1] = Minute

\* No constraint is active at time now: fewer than requests_per_minute
\* entries of q are less than 60 s old, fewer than requests_per_second less
\* than 1 s old, and _last_request_time is at least min_interval back.
Unconstrained(q, now) ==
  /\ Cardinality({i \in 1..Len(q) : now - q[i] < Minute})
       < requests_per_minute
  /\ Cardinality({i \in 1..Len(q) : now - q[i] < Second})
       < requests_per_second
  /\ min_interval # NaN
  /\ now - last_request_time >= min_interval

\* The first call on a limiter just constructed, the clock at min_interval
\* or later.
FirstCallOnFresh ==
  /\ calls = 1
  /\ request_times = << >>
  /\ last_request_time = 0
  /\ min_interval # NaN
  /\ clock >= min_interval

\* A call that reads the clock while Premise holds goes on without a sleep,
\* and a call that did not sleep returns 0 having recorded the time it read.
NoDelayWhen(Premise) ==
  \A t \in Threads :
    /\ (pc[t] = "w_eval" /\ pc'[t] # "w_eval" /\ Premise)
         => /\ pc'[t] = "w_record"
            /\ wait_time'[t] = 0
            /\ current_time'[t] = clock
    /\ (pc[t] = "w_record" /\ pc'[t] # "w_record" /\ wait_time[t] = 0)
         => /\ returned'.kind = "wait"
            /\ returned'.value = 0
            /\ returned'.admitted_at = time_read[t]
            /\ admitted' = Append(admitted, time_read[t])

\* C23: a call that reads the clock with no constraint active does not
\* sleep, returns 0 and records the time it read; the first call on a fresh
\* limiter is such a call whenever the clock reads at least min_interval.
C23_DelaysOnlyWhenConstrained ==
  [][NoDelayWhen(Unconstrained(request_times, clock) \/ FirstCallOnFresh)]_vars

\* The first half of C23 alone: it holds, whatever the constructor was given.
NoDelayWhenUnconstrained ==
  [][NoDelayWhen(Unconstrained(request_times, clock))]_vars

\* C23 whole, for constructor arguments in the documented ranges: it holds.
NoDelayInRange ==
  [][ArgsInRange =>
       NoDelayWhen(Unconstrained(request_times, clock)
                     \/ FirstCallOnFresh)]_vars

\* A call returned 0 with the deque holding entries of earlier calls, one of
\* them exactly 60 s old.
NoDelayWhenUnconstrainedHappens ==
  /\ returned.kind = "wait"
  /\ returned.value = 0
  /\ Len(request_times) >= 2
  /\ returned.read_at - request_times[1] = Minute

=============================================================================
